---- MODULE Spec2Model ----
(***************************************************************************)
(* A model of the retrieval core of bettergut (HealthRAGSystem in          *)
(* RAG_and_crawler/rag/rag_system.py) and of the service handlers of       *)
(* RAG_and_crawler/api.py that drive it.                                   *)
(*                                                                         *)
(* Numbers with a fraction are kept exact: a relevance or a distance is    *)
(* counted in tenths (5 stands for 0.5), a similarity and a threshold are  *)
(* fractions <<numerator, denominator>> compared by cross-multiplication.  *)
(* The fractions of the model have denominators of at most 10, so two      *)
(* different ones differ by far more than a rounding error and Python's    *)
(* float comparison agrees with the exact one; equal fractions round to    *)
(* the same float (7/10 == 0.7, 2/4 == 0.5).                               *)
(***************************************************************************)
EXTENDS Integers, Sequences, FiniteSets, TLC

VARIABLES
    \* ---- the locals of search and get_context_for_query
    results,            \* what search returned
    diversity_threshold,\* <<num, den>>
    max_context_length, \* characters
    selected,           \* what _select_diverse_results returned
    context,            \* what get_context_for_query returned
    \* ---- the durable chroma store (one collection name)
    collExists,         \* a collection of self.collection_name exists
    entries,            \* its entries: id -> [text, metadata]
    collDim,            \* its established embedding dimension (0: none yet)
    dupPolicy,          \* what collection.add does with an id that exists
    \* ---- the HealthRAGSystem object
    handleLive,         \* self.collection refers to the existing collection
    modelDim,           \* the dimension self.embedding_model produces
    clock,              \* int(time.time())
    \* ---- the method call in progress
    op,                 \* "none" or the method running
    pc,                 \* its position
    documents,          \* add_documents: documents
    batch_size,         \* add_documents: batch_size
    processed_docs,     \* add_documents: processed_docs
    bi,                 \* add_documents: i of the batch loop
    n_results,          \* search: n_results
    out,                \* what the method returned to its caller
    entriesBefore,      \* history: the entries when the method was called
    faults,             \* history: the errors raised inside the method call
    \* ---- the service of api.py: coroutines on one asyncio event loop
    loop,               \* the task that is running, "none" when all are suspended
    tpc,                \* each task's position
    tdocs,              \* each task's loaded documents (rebuild_knowledge_base)
    resp,               \* the outcome of the handler that finished last
    \* ---- the service of health_api.py: coroutines on one asyncio event loop
    crawl_status,       \* the global dict of line 37
    crawl_tasks,        \* the tasks of _run_crawling_process that have not ended
    now,                \* datetime.now()
    started,            \* what the handler of POST /crawl/start answered
    \* ---- a MedicalCrawlerOrchestrator and the calls to crawl_specific_sources
    crawler_priorities, \* self.crawler_priorities
    calls               \* each call's position and locals

selVars == <<results, diversity_threshold, max_context_length, selected, context>>

storeVars == <<collExists, entries, collDim, dupPolicy>>

objVars == <<handleLive, modelDim, clock>>

callVars == <<op, pc, documents, batch_size, processed_docs, bi, n_results, out,
              entriesBefore, faults>>

apiVars == <<loop, tpc, tdocs, resp>>

healthVars == <<crawl_status, crawl_tasks, now, started>>

orchVars == <<crawler_priorities, calls>>

\* everything outside the HealthRAGSystem object and its store
svcVars == <<apiVars, healthVars, orchVars>>

vars == <<selVars, storeVars, objVars, callVars, svcVars>>

\* ------------------------------------------------------------------ bounds

MaxCand == 3

\* ------------------------------------------------------------ text model

\* A text is `n` words separated by single spaces: the words of the pattern
\* `words`, taken in turn and over again, starting `off` words into it.
EmptyText == [words |-> <<>>, off |-> 0, n |-> 0]

\* the word sequence `words` repeated `reps` times
Text(words, reps) ==
    IF words = <<>> \/ reps = 0
    THEN EmptyText
    ELSE [words |-> words, off |-> 0, n |-> Len(words) * reps]

\* len(text.split())
NumWords(text) == text.n

\* text.split()[j], j counted from 0
WordAt(text, j) == text.words[((text.off + j) % Len(text.words)) + 1]

\* str.lower() on one word.
Lower(w) == IF w = "Gut" THEN "gut" ELSE w

\* len() of one word.
WordLen(w) == Len(w)

\* set(text.lower().split())
WordSet(text) ==
    {Lower(WordAt(text, j)) :
        j \in 0..((IF text.n < Len(text.words) THEN text.n ELSE Len(text.words)) - 1)}

RECURSIVE SumLen(_)
SumLen(words) ==
    IF words = <<>> THEN 0 ELSE WordLen(Head(words)) + SumLen(Tail(words))

\* the lengths of the words j, j + 1, ..., k - 1 of a text
RECURSIVE SumLenFrom(_, _, _)
SumLenFrom(text, j, k) ==
    IF j >= k THEN 0 ELSE WordLen(WordAt(text, j)) + SumLenFrom(text, j + 1, k)

\* len() of a text: the words and the spaces between them
TextLen(text) ==
    IF text.n = 0
    THEN 0
    ELSE (text.n \div Len(text.words)) * SumLen(text.words)
         + SumLenFrom(text, 0, text.n % Len(text.words))
         + (text.n - 1)

\* The contents the candidates are drawn from: each at least as long as the
\* shortest chunk the chunker keeps (100 characters).
Texts ==
    { Text(<<"gut", "fiber">>, 12),
      Text(<<"Gut", "fiber">>, 12),
      Text(<<"gut", "fiber", "diet", "food">>, 12),
      Text(<<"gut">>, 26),
      Text(<<"food", "diet">>, 12) }

\* ----------------------------------------------------- similarity, select

\* _calculate_text_similarity: <<intersection, union>>, or <<0, 1>> (0.0) when a
\* word set is empty.
calculate_text_similarity(text1, text2) ==
    LET words1 == WordSet(text1)
        words2 == WordSet(text2)
    IN  IF words1 = {} \/ words2 = {}
        THEN <<0, 1>>
        ELSE <<Cardinality(words1 \cap words2), Cardinality(words1 \cup words2)>>

\* a > b for fractions with positive denominators
FracGt(a, b) == a[1] * b[2] > b[1] * a[2]

FracLt(a, b) == FracGt(b, a)

\* the relevance floor of line 266, in tenths: 0.5
MinRelevance == 5

\* the cap of line 269
MaxSelected == 5

\* (mutation of IsDiverse: compared with the result selected last only)
IsDiverseFromLast(result, sel, thr) ==
    sel = <<>> \/
    ~FracGt(calculate_text_similarity(result.content, sel[Len(sel)].content), thr)

\* the inner loop of _select_diverse_results: is_diverse
IsDiverse(result, sel, thr) ==
    \A j \in 1..Len(sel) :
        ~FracGt(calculate_text_similarity(result.content, sel[j].content), thr)

\* (mutation of Admits: the relevance floor forgotten)
AdmitsNoFloor(result, sel, thr) == IsDiverse(result, sel, thr)

\* the admission test of line 266
Admits(result, sel, thr) ==
    IsDiverse(result, sel, thr) /\ result.relevance_score > MinRelevance

\* (mutation of SelectFrom: an admitted result put in front, not appended)
RECURSIVE SelectFromPrepending(_, _, _, _)
SelectFromPrepending(res, i, sel, thr) ==
    IF i > Len(res)
    THEN sel
    ELSE LET sel2 == IF Admits(res[i], sel, thr) THEN <<res[i]>> \o sel ELSE sel
         IN  IF Len(sel2) >= MaxSelected
             THEN sel2
             ELSE SelectFromPrepending(res, i + 1, sel2, thr)

\* (mutation of SelectFrom: lines 269-270 left out)
RECURSIVE SelectFromUncapped(_, _, _, _)
SelectFromUncapped(res, i, sel, thr) ==
    IF i > Len(res)
    THEN sel
    ELSE SelectFromUncapped(res, i + 1,
             IF Admits(res[i], sel, thr) THEN Append(sel, res[i]) ELSE sel, thr)

\* the loop over results[1:], from position i (1-based) on, with `sel` selected
RECURSIVE SelectFrom(_, _, _, _)
SelectFrom(res, i, sel, thr) ==
    IF i > Len(res)
    THEN sel
    ELSE LET sel2 == IF Admits(res[i], sel, thr) THEN Append(sel, res[i]) ELSE sel
         IN  IF Len(sel2) >= MaxSelected THEN sel2 ELSE SelectFrom(res, i + 1, sel2, thr)

\* (mutation of select_diverse_results: the floor applied to the top result too)
select_floor_first(res, thr) ==
    IF res = <<>> \/ res[1].relevance_score <= MinRelevance
    THEN <<>>
    ELSE SelectFrom(res, 2, <<res[1]>>, thr)

\* _select_diverse_results
select_diverse_results(res, thr) ==
    IF res = <<>> THEN <<>> ELSE SelectFrom(res, 2, <<res[1]>>, thr)

\* --------------------------------------------------------- context assembly

Sentinel == "No relevant information found in the knowledge base."

\* len(source_info) for a result's metadata (lines 224-228)
SourceInfoLen(metadata) ==
    Len("Source: ") + Len(metadata.title) + 1
    + (IF metadata.author # "" THEN Len("by ") + Len(metadata.author) + 1 ELSE 0)
    + (IF metadata.source # "" THEN 1 + Len(metadata.source) + 1 ELSE 0)

\* len(formatted_chunk), line 230: source_info, "\n", content, "\n---\n"
BlockLen(result) == SourceInfoLen(result.metadata) + 1 + TextLen(result.content) + 5

\* (mutation of AssembleFrom: `continue` in place of the `break` of line 233)
RECURSIVE AssembleFromSkipping(_, _, _, _, _)
AssembleFromSkipping(sel, i, parts, current_length, maxLen) ==
    IF i > Len(sel)
    THEN parts
    ELSE IF current_length + BlockLen(sel[i]) > maxLen
         THEN AssembleFromSkipping(sel, i + 1, parts, current_length, maxLen)
         ELSE AssembleFromSkipping(sel, i + 1, Append(parts, sel[i]),
                                   current_length + BlockLen(sel[i]), maxLen)

\* the loop of lines 219-236 from position i on: the blocks included
RECURSIVE AssembleFrom(_, _, _, _, _)
AssembleFrom(sel, i, parts, current_length, maxLen) ==
    IF i > Len(sel)
    THEN parts
    ELSE IF current_length + BlockLen(sel[i]) > maxLen
         THEN parts
         ELSE AssembleFrom(sel, i + 1, Append(parts, sel[i]),
                           current_length + BlockLen(sel[i]), maxLen)

\* A returned string: the fixed sentinel text, or the header followed by blocks.
SentinelContext == [text |-> Sentinel, blocks |-> <<>>]

NoContext == [text |-> "", blocks |-> <<>>]

\* (mutation of AssembleContext: the budget tested after the block is appended)
AssembleContextLate(sel, maxLen) ==
    LET fit  == AssembleFrom(sel, 1, <<>>, 0, maxLen)
        parts == IF Len(fit) < Len(sel) THEN Append(fit, sel[Len(fit) + 1]) ELSE fit
    IN  IF parts = <<>>
        THEN SentinelContext
        ELSE [text |-> "Relevant scientific and expert information:", blocks |-> parts]

\* (mutation of AssembleContext: lines 238-239 left out)
AssembleContextNoSentinel(sel, maxLen) ==
    LET parts == AssembleFrom(sel, 1, <<>>, 0, maxLen)
    IN  IF parts = <<>>
        THEN NoContext
        ELSE [text |-> "Relevant scientific and expert information:", blocks |-> parts]

\* the first line of a context (line 241), two line ends after it
Header == "Relevant scientific and expert information:"

\* lines 215-242: the context built from the selected results
AssembleContext(sel, maxLen) ==
    LET parts == AssembleFrom(sel, 1, <<>>, 0, maxLen)
    IN  IF parts = <<>>
        THEN SentinelContext
        ELSE [text |-> Header, blocks |-> parts]

RECURSIVE SumBlockLen(_)
SumBlockLen(parts) ==
    IF parts = <<>> THEN 0 ELSE BlockLen(Head(parts)) + SumBlockLen(Tail(parts))

\* len() of a returned string: the sentinel, or line 241: the header, "\n\n",
\* and the blocks joined by "\n"
ContextLen(c) ==
    IF c.blocks = <<>>
    THEN Len(c.text)
    ELSE Len(c.text) + 2 + SumBlockLen(c.blocks) + (Len(c.blocks) - 1)

\* ------------------------------------------------------------ the chunker

\* the defaults of _chunk_document (lines 83-84) and its length floor (line 100)
DefaultChunkSize == 1000

DefaultOverlap == 200

MinChunkChars == 100

Min(a, b) == IF a < b THEN a ELSE b

\* words[i:i + k] of a text (i counts from 0), joined by single spaces
Slice(text, i, k) ==
    LET n  == NumWords(text)
        lo == Min(i, n)
        hi == Min(i + k, n)
    IN  IF hi - lo = 0
        THEN EmptyText
        ELSE [words |-> text.words,
              off |-> (text.off + lo) % Len(text.words),
              n |-> hi - lo]

\* the chunk of lines 103-116, total_chunks still 0
NewChunk(document, chunk_text, index) ==
    [text |-> chunk_text,
     metadata |-> [source |-> document.source, title |-> document.title,
                   author |-> document.author, chunk_index |-> index,
                   total_chunks |-> 0, content_type |-> document.content_type]]

\* (mutation of KeepWindow: the window taken one word late)
KeepWindowShifted(document, i, chunks, chunk_size) ==
    LET chunk_text == Slice(document.content, i + 1, chunk_size)
    IN  IF TextLen(chunk_text) < MinChunkChars
        THEN chunks
        ELSE Append(chunks, NewChunk(document, chunk_text, Len(chunks)))

\* (mutation of KeepWindow: lines 100-101 left out)
KeepWindowAlways(document, i, chunks, chunk_size) ==
    Append(chunks, NewChunk(document, Slice(document.content, i, chunk_size), Len(chunks)))

\* (mutation of KeepWindow: the window at the second offset is lost)
KeepWindowButSecond(document, i, chunks, chunk_size) ==
    LET chunk_text == Slice(document.content, i, chunk_size)
    IN  IF TextLen(chunk_text) < MinChunkChars \/ (i > 0 /\ Len(chunks) = 1)
        THEN chunks
        ELSE Append(chunks, NewChunk(document, chunk_text, Len(chunks)))

\* one pass of the loop body, lines 97-117, at word offset i: `chunks` after it
KeepWindow(document, i, chunks, chunk_size) ==
    LET chunk_text == Slice(document.content, i, chunk_size)
    IN  IF TextLen(chunk_text) < MinChunkChars
        THEN chunks
        ELSE Append(chunks, NewChunk(document, chunk_text, Len(chunks)))

\* the loop of lines 96-117 from word offset i on
RECURSIVE ChunkFrom(_, _, _, _, _)
ChunkFrom(document, i, chunks, chunk_size, overlap) ==
    IF i >= NumWords(document.content)
    THEN chunks
    ELSE ChunkFrom(document, i + (chunk_size - overlap),
                   KeepWindow(document, i, chunks, chunk_size), chunk_size, overlap)

\* (mutation of WithTotals: lines 120-121 left out)
WithTotalsLeftOut(chunks) == chunks

\* lines 119-123: total_chunks filled in
WithTotals(chunks) ==
    [k \in 1..Len(chunks) |-> [chunks[k] EXCEPT !.metadata.total_chunks = Len(chunks)]]

\* _chunk_document for a document whose content is a string
chunk_document(document, chunk_size, overlap) ==
    IF NumWords(document.content) = 0
    THEN <<>>
    ELSE WithTotals(ChunkFrom(document, 0, <<>>, chunk_size, overlap))

\* _chunk_document raises: the document is no dict (document.get fails, line
\* 86), or its content is no string (content.split fails, line 93)
ChunkingRaises(document) == ~document.is_dict \/ ~document.content_is_str

\* the handler of line 70 raises: doc.get on a document that is no dict
LoggingRaises(document) == ~document.is_dict

\* the loop of lines 63-70 is left by the error of line 70
ProcessingRaises(docs) == \E i \in 1..Len(docs) : LoggingRaises(docs[i])

\* lines 61-70: processed_docs when the loop ends or is left: the chunks of the
\* documents, a document whose chunking raises skipped
RECURSIVE ProcessDocs(_)
ProcessDocs(docs) ==
    IF docs = <<>>
    THEN <<>>
    ELSE IF ChunkingRaises(Head(docs))
         THEN (IF LoggingRaises(Head(docs)) THEN <<>> ELSE ProcessDocs(Tail(docs)))
         ELSE chunk_document(Head(docs), DefaultChunkSize, DefaultOverlap)
              \o ProcessDocs(Tail(docs))

\* ------------------------------------------------------- the system's inputs

MaxDocs == 2

MaxClock == 2

Doc(title, words, reps, isStr) ==
    [is_dict |-> TRUE,
     title |-> title, content |-> Text(words, reps), content_is_str |-> isStr,
     source |-> "mayo", author |-> "", content_type |-> "article"]

\* 900 words: two chunks (words 0-899 and 800-899); 100 words: one chunk; a
\* document whose content is no string; and a list element that is no dict
DocA == Doc("A", <<"fiber">>, 900, TRUE)

DocB == Doc("B", <<"food">>, 100, TRUE)

DocX == Doc("X", <<>>, 0, FALSE)

DocN == [Doc("", <<>>, 0, FALSE) EXCEPT !.is_dict = FALSE]

\* the documents a caller passes; DocB is what an earlier run ingested
Docs == {DocA, DocX, DocN}

DocLists == UNION { [1..n -> Docs] : n \in 0..MaxDocs }

BatchSizes == {1, 2}

\* embedding dimensions: all-MiniLM-L6-v2 gives 384
Dims == {384, 768}

\* collection.add given an id the collection holds: chromadb raises, or keeps
\* the old entry and drops the new one, depending on its version
DupPolicies == {"raise", "ignore"}

\* ---------------------------------------------------------------- the store

NoEntries == <<>>

Count(e) == Cardinality(DOMAIN e)

ChunkKey(chunk) == <<chunk.metadata.title, chunk.metadata.chunk_index>>

\* the embedding of a text by a model of dimension d
Embed(text, d) == [of |-> text, dim |-> d]

\* line 135: the ids of a batch generated at time t
BatchIds(batch, t) == [k \in 1..Len(batch) |-> <<t, k - 1>>]

\* (mutation of BatchEntries: every embedding computed from the first text)
BatchEntriesOfFirst(batch, t, d) ==
    [id \in {BatchIds(batch, t)[k] : k \in 1..Len(batch)} |->
        LET k == CHOOSE j \in 1..Len(batch) : BatchIds(batch, t)[j] = id
        IN  [text |-> batch[k].text, metadata |-> batch[k].metadata,
             embedding |-> Embed(batch[1].text, d)]]

\* the entries a batch makes, by id
BatchEntries(batch, t, d) ==
    [id \in {BatchIds(batch, t)[k] : k \in 1..Len(batch)} |->
        LET k == CHOOSE j \in 1..Len(batch) : BatchIds(batch, t)[j] = id
        IN  [text |-> batch[k].text, metadata |-> batch[k].metadata,
             embedding |-> Embed(batch[k].text, d)]]

\* f with the entries of g added; on an id of both, g's if `replace`
Merge(f, g, replace) ==
    [id \in DOMAIN f \cup DOMAIN g |->
        IF id \in DOMAIN g /\ (replace \/ id \notin DOMAIN f) THEN g[id] ELSE f[id]]

\* what an earlier run of the service, with a model of dimension 768, left in
\* the store
Preloaded == BatchEntries(chunk_document(DocB, DefaultChunkSize, DefaultOverlap), 0, 768)

NoOut == [method |-> "none", raised |-> FALSE, value |-> <<>>]

\* the handlers and background tasks of api.py that use the RAG system
Tasks == {"rebuild", "crawl", "reset", "search"}

NoResp == [task |-> "none", status |-> 0]

\* no request is being served and no background task exists
ApiIdle ==
    /\ loop = "none"
    /\ tpc = [t \in Tasks |-> "idle"]
    /\ tdocs = [t \in Tasks |-> <<>>]
    /\ resp = NoResp

\* Python's None and a value that is not None
None == <<>>

Some(x) == <<x>>

NoAnswer == [status |-> 0]

\* health_api.py as imported: crawl_status of lines 37-45, no task, no request
HealthIdle ==
    /\ crawl_status = [status |-> "idle", start_time |-> None, end_time |-> None,
                       articles_collected |-> 0, sources_completed |-> 0,
                       current_source |-> None, error |-> None]
    /\ crawl_tasks = <<>>
    /\ now = 1
    /\ started = NoAnswer

\* self.crawlers of MedicalCrawlerOrchestrator.__init__ (lines 36-49): its keys
Crawlers ==
    {"mayo_clinic", "harvard_nutrition", "academy_nutrition", "nih_niddk", "iffgd",
     "johns_hopkins", "cleveland_clinic", "aga", "crohns_colitis_foundation",
     "iffgd_comprehensive", "pubmed", "nutrition_general"}

\* self.crawler_priorities of MedicalCrawlerOrchestrator.__init__ (lines 51-62)
TierMap ==
    [tier_1 |-> <<"mayo_clinic", "harvard_nutrition", "nih_niddk", "johns_hopkins">>,
     tier_2 |-> <<"cleveland_clinic", "academy_nutrition", "aga", "iffgd",
                  "crohns_colitis_foundation", "iffgd_comprehensive">>,
     tier_3 |-> <<"pubmed", "nutrition_general">>]

\* the callers of crawl_specific_sources on one orchestrator
Calls == {"A", "B"}

NoCall ==
    [pc |-> "idle", source_names |-> <<>>, original_priorities |-> <<>>,
     active_crawlers |-> <<>>, k |-> 0, crawled |-> <<>>, results |-> {}]

\* the orchestrator as constructed, no call to it running
OrchIdle ==
    /\ crawler_priorities = TierMap
    /\ calls = [c \in Calls |-> NoCall]

\* the defaults of get_context_for_query (lines 193-194)
DefaultThreshold == <<7, 10>>

DefaultContextLength == 4000

\* __init__ (lines 22-49) has loaded the collection an earlier run left, or
\* created a new one
Init ==
    /\ results = <<>>
    /\ diversity_threshold = DefaultThreshold
    /\ max_context_length = DefaultContextLength
    /\ selected = <<>>
    /\ context = NoContext
    /\ op = "none"
    /\ pc = "idle"
    /\ documents = <<>>
    /\ batch_size = 0
    /\ processed_docs = <<>>
    /\ bi = 0
    /\ n_results = 0
    /\ out = NoOut
    /\ entriesBefore = NoEntries
    /\ faults = {}
    /\ collExists = TRUE
    /\ handleLive = TRUE
    /\ \/ entries = NoEntries /\ collDim = 0
       \/ entries = Preloaded /\ collDim = 768
    /\ dupPolicy \in DupPolicies
    /\ modelDim \in Dims
    /\ clock = 1
    /\ ApiIdle
    /\ HealthIdle
    /\ OrchIdle

\* method has returned and its caller has not yet gone on
Returned(method) == op = method /\ pc = "returned"

\* ------------------------------------------------------------ add_documents

\* lines 59-70: add_documents is entered and chunks every document; the error
\* of line 70 leaves add_documents
InvokeAddDocuments(docs, bs) ==
    /\ op' = "add_documents"
    /\ documents' = docs
    /\ batch_size' = bs
    /\ processed_docs' = ProcessDocs(docs)
    /\ bi' = 0
    /\ pc' = IF ProcessingRaises(docs) THEN "returned" ELSE "batches"
    /\ n_results' = 0
    /\ out' = IF ProcessingRaises(docs)
              THEN [method |-> "add_documents", raised |-> TRUE, value |-> <<>>]
              ELSE NoOut
    /\ entriesBefore' = entries
    /\ faults' = {}

\* add_documents(documents, batch_size) called on the idle object
CallAddDocuments(docs, bs) ==
    /\ op = "none"
    /\ InvokeAddDocuments(docs, bs)
    /\ UNCHANGED <<storeVars, objVars, selVars, svcVars>>

\* the batch of line 74
CurrentBatch ==
    SubSeq(processed_docs, bi + 1, Min(bi + batch_size, Len(processed_docs)))

\* collection.add (lines 138-143) raises: the error, or "" when it stores
AddError(batch, indexUp) ==
    IF ~handleLive \/ ~collExists THEN "CollectionNotFound"
    ELSE IF ~indexUp THEN "IndexUnavailable"
    ELSE IF collDim # 0 /\ collDim # modelDim THEN "DimensionMismatch"
    ELSE IF dupPolicy = "raise"
            /\ \E k \in 1..Len(batch) : BatchIds(batch, clock)[k] \in DOMAIN entries
         THEN "DuplicateID"
    ELSE ""

\* _add_batch_to_collection (lines 125-146) on the batch of line 74, and the
\* loop's step to the next batch; an error is logged (line 146) and swallowed
AddBatch(modelUp, indexUp) ==
    /\ op = "add_documents"
    /\ pc = "batches"
    /\ bi < Len(processed_docs)
    /\ LET batch == CurrentBatch
           err == IF ~modelUp THEN "ModelUnavailable" ELSE AddError(batch, indexUp)
       IN  IF err # ""
           THEN /\ faults' = faults \cup {err}
                /\ UNCHANGED <<entries, collDim>>
           ELSE /\ entries' = Merge(entries, BatchEntries(batch, clock, modelDim),
                                    dupPolicy = "overwrite")
                /\ collDim' = modelDim
                /\ UNCHANGED faults
    /\ bi' = bi + batch_size
    /\ UNCHANGED <<op, pc, documents, batch_size, processed_docs, n_results, out,
                   entriesBefore, collExists, dupPolicy, objVars, selVars>>
    /\ UNCHANGED svcVars

\* line 80: the loop is over, add_documents returns None
AddDocumentsReturn ==
    /\ op = "add_documents"
    /\ pc = "batches"
    /\ bi >= Len(processed_docs)
    /\ pc' = "returned"
    /\ out' = [method |-> "add_documents", raised |-> FALSE, value |-> <<>>]
    /\ UNCHANGED <<op, documents, batch_size, processed_docs, bi, n_results,
                   entriesBefore, faults, storeVars, objVars, selVars>>
    /\ UNCHANGED svcVars

\* the method's frame is left: its locals are gone
TakeResult ==
    /\ op' = "none"
    /\ pc' = "idle"
    /\ documents' = <<>>
    /\ batch_size' = 0
    /\ processed_docs' = <<>>
    /\ bi' = 0
    /\ n_results' = 0
    /\ out' = NoOut
    /\ entriesBefore' = NoEntries
    /\ faults' = {}
    /\ results' = <<>>
    /\ diversity_threshold' = DefaultThreshold
    /\ max_context_length' = DefaultContextLength
    /\ selected' = <<>>
    /\ context' = NoContext

\* the caller of the object takes the result
Return ==
    /\ op # "none"
    /\ pc = "returned"
    /\ TakeResult
    /\ UNCHANGED <<storeVars, objVars, svcVars>>

\* (mutation of Restart: create_collection under a fresh name whatever exists)
RestartEmptying(getUp, createUp) ==
    /\ op' = "__init__"
    /\ pc' = "returned"
    /\ documents' = <<>>
    /\ batch_size' = 0
    /\ processed_docs' = <<>>
    /\ bi' = 0
    /\ n_results' = 0
    /\ out' = [method |-> "__init__", raised |-> FALSE, value |-> <<>>]
    /\ entriesBefore' = entries
    /\ faults' = {}
    /\ results' = <<>>
    /\ diversity_threshold' = DefaultThreshold
    /\ max_context_length' = DefaultContextLength
    /\ selected' = <<>>
    /\ context' = NoContext
    /\ collExists' = TRUE
    /\ handleLive' = TRUE
    /\ entries' = NoEntries
    /\ collDim' = 0
    /\ UNCHANGED <<dupPolicy, modelDim, clock, svcVars>>

\* The process ends, whatever it was doing, and a new one constructs the
\* object on the same store: __init__ (lines 22-49). get_collection attaches
\* to the collection; when it raises, for whatever reason (line 43 is a bare
\* except), create_collection is tried, which raises if the store is down or
\* holds the name already: then __init__ raises and no object exists until the
\* next start.
Restart(getUp, createUp) ==
    /\ op' = "__init__"
    /\ documents' = <<>>
    /\ batch_size' = 0
    /\ processed_docs' = <<>>
    /\ bi' = 0
    /\ n_results' = 0
    /\ entriesBefore' = entries
    /\ results' = <<>>
    /\ diversity_threshold' = DefaultThreshold
    /\ max_context_length' = DefaultContextLength
    /\ selected' = <<>>
    /\ context' = NoContext
    /\ IF collExists /\ getUp
       THEN /\ pc' = "returned"
            /\ out' = [method |-> "__init__", raised |-> FALSE, value |-> <<>>]
            /\ faults' = {}
            /\ handleLive' = TRUE
            /\ UNCHANGED <<collExists, entries, collDim>>
       ELSE LET err == IF getUp THEN "CollectionNotFound" ELSE "IndexUnavailable"
            IN  IF ~collExists /\ createUp
                THEN /\ pc' = "returned"
                     /\ out' = [method |-> "__init__", raised |-> FALSE, value |-> <<>>]
                     /\ faults' = {err}
                     /\ collExists' = TRUE
                     /\ handleLive' = TRUE
                     /\ entries' = NoEntries
                     /\ collDim' = 0
                ELSE /\ pc' = "failed"
                     /\ out' = [method |-> "__init__", raised |-> TRUE, value |-> <<>>]
                     /\ faults' = {err}
                     /\ handleLive' = FALSE
                     /\ UNCHANGED <<collExists, entries, collDim>>
    /\ UNCHANGED <<dupPolicy, modelDim, clock, svcVars>>

\* a second passes on the clock of line 135
Tick ==
    /\ clock < MaxClock
    /\ clock' = clock + 1
    /\ UNCHANGED <<handleLive, modelDim, storeVars, callVars, selVars>>
    /\ UNCHANGED svcVars

\* --------------------------------------------------------- clear_collection

\* line 317: clear_collection is entered
InvokeClearCollection ==
    /\ op' = "clear_collection"
    /\ pc' = "delete"
    /\ documents' = <<>>
    /\ batch_size' = 0
    /\ processed_docs' = <<>>
    /\ bi' = 0
    /\ n_results' = 0
    /\ out' = NoOut
    /\ entriesBefore' = entries
    /\ faults' = {}

\* clear_collection() called on the idle object
CallClearCollection ==
    /\ op = "none"
    /\ InvokeClearCollection
    /\ UNCHANGED <<storeVars, objVars, selVars, svcVars>>

\* line 320: delete_collection; an error is logged (line 327) and swallowed,
\* and clear_collection returns
ClearDelete(storeUp) ==
    /\ op = "clear_collection"
    /\ pc = "delete"
    /\ IF collExists /\ storeUp
       THEN /\ collExists' = FALSE
            /\ entries' = NoEntries
            /\ collDim' = 0
            /\ handleLive' = FALSE
            /\ pc' = "create"
            /\ UNCHANGED <<faults, out>>
       ELSE /\ faults' = faults \cup {IF collExists THEN "IndexUnavailable"
                                                    ELSE "CollectionNotFound"}
            /\ pc' = "returned"
            /\ out' = [method |-> "clear_collection", raised |-> FALSE, value |-> <<>>]
            /\ UNCHANGED <<collExists, entries, collDim, handleLive>>
    /\ UNCHANGED <<op, documents, batch_size, processed_docs, bi, n_results,
                   entriesBefore, dupPolicy, modelDim, clock, selVars>>
    /\ UNCHANGED svcVars

\* lines 321-327: create_collection and the assignment of self.collection; an
\* error is logged and swallowed
ClearCreate(storeUp) ==
    /\ op = "clear_collection"
    /\ pc = "create"
    /\ IF storeUp
       THEN /\ collExists' = TRUE
            /\ handleLive' = TRUE
            /\ UNCHANGED faults
       ELSE /\ faults' = faults \cup {"IndexUnavailable"}
            /\ UNCHANGED <<collExists, handleLive>>
    /\ pc' = "returned"
    /\ out' = [method |-> "clear_collection", raised |-> FALSE, value |-> <<>>]
    /\ UNCHANGED <<op, documents, batch_size, processed_docs, bi, n_results,
                   entriesBefore, entries, collDim, dupPolicy, modelDim, clock, selVars>>
    /\ UNCHANGED svcVars

\* ------------------------------------------- search, get_context_for_query

\* the distance of an entry's text from the query, in tenths: texts on the
\* query's subject are closer, a long one closest
DistanceOf(text) ==
    IF "fiber" \notin WordSet(text) THEN 6
    ELSE IF NumWords(text) > 500 THEN 2
    ELSE 3

\* ids in the order <<t, i>>
IdLess(a, b) == a[1] < b[1] \/ (a[1] = b[1] /\ a[2] < b[2])

\* closer to the query; entries at the same distance in id order
Closer(e, a, b) ==
    \/ DistanceOf(e[a].text) < DistanceOf(e[b].text)
    \/ DistanceOf(e[a].text) = DistanceOf(e[b].text) /\ IdLess(a, b)

\* collection.query: the n nearest of the entries `ids`, closest first
RECURSIVE Nearest(_, _, _)
Nearest(e, ids, n) ==
    IF n = 0 \/ ids = {}
    THEN <<>>
    ELSE LET first == CHOOSE a \in ids : \A b \in ids \ {a} : Closer(e, a, b)
         IN  <<first>> \o Nearest(e, ids \ {first}, n - 1)

\* search's conversion of one index answer (lines 177-182)
FormatResult(content, metadata, distance) ==
    [content |-> content, metadata |-> metadata, distance |-> distance,
     relevance_score |-> 10 - distance]

\* (mutation of FormattedResults: content and metadata of the first answer in
\* every result)
FormattedResultsOfFirst(e, n) ==
    LET answer == Nearest(e, DOMAIN e, n)
    IN  [k \in 1..Len(answer) |->
            FormatResult(e[answer[1]].text, e[answer[1]].metadata,
                         DistanceOf(e[answer[k]].text))]

\* lines 174-185: formatted_results
FormattedResults(e, n) ==
    LET answer == Nearest(e, DOMAIN e, n)
    IN  [k \in 1..Len(answer) |->
            FormatResult(e[answer[k]].text, e[answer[k]].metadata,
                         DistanceOf(e[answer[k]].text))]

\* n_results of /rag/search (api.py line 198) and of line 207
SearchNResults == 5

\* n_results as a client of /rag/search passes it, or leaves it out
SearchSizes == {2, SearchNResults}

ContextNResults == 10

\* line 148: search is entered, by its caller or by line 207
InvokeSearch(method, n) ==
    /\ op' = method
    /\ pc' = "search"
    /\ documents' = <<>>
    /\ batch_size' = 0
    /\ processed_docs' = <<>>
    /\ bi' = 0
    /\ n_results' = n
    /\ out' = NoOut
    /\ entriesBefore' = entries
    /\ faults' = {}

\* api.py line 204: search(query, n_results)
CallSearch(n) ==
    /\ op = "none"
    /\ InvokeSearch("search", n)
    /\ UNCHANGED <<storeVars, objVars, selVars, svcVars>>

\* get_context_for_query(query) with its defaults (llama3_service.py line 82)
CallGetContext ==
    /\ op = "none"
    /\ InvokeSearch("get_context_for_query", ContextNResults)
    /\ UNCHANGED <<storeVars, objVars, selVars, svcVars>>

\* self.embedding_model.encode or self.collection.query raises: the error, or ""
SearchError(modelUp, indexUp) ==
    IF ~modelUp THEN "ModelUnavailable"
    ELSE IF ~handleLive \/ ~collExists THEN "CollectionNotFound"
    ELSE IF ~indexUp THEN "IndexUnavailable"
    ELSE IF collDim # 0 /\ collDim # modelDim THEN "DimensionMismatch"
    ELSE ""

\* what search returns (lines 163-189): [] after an error (line 189)
SearchValue(err) == IF err # "" THEN <<>> ELSE FormattedResults(entries, n_results)

\* search (lines 148-189), called directly or at line 207
Search(modelUp, indexUp) ==
    /\ op \in {"search", "get_context_for_query"}
    /\ pc = "search"
    /\ LET err == SearchError(modelUp, indexUp)
       IN  /\ faults' = IF err # "" THEN faults \cup {err} ELSE faults
           /\ results' = SearchValue(err)
           /\ IF op = "search"
              THEN /\ pc' = "returned"
                   /\ out' = [method |-> "search", raised |-> FALSE,
                              value |-> SearchValue(err)]
              ELSE /\ pc' = "searched"
                   /\ UNCHANGED out
    /\ UNCHANGED <<op, documents, batch_size, processed_docs, bi, n_results,
                   entriesBefore, diversity_threshold, max_context_length, selected,
                   context, storeVars, objVars>>
    /\ UNCHANGED svcVars

\* lines 209-210: the search found nothing
NoResultsStep ==
    /\ op = "get_context_for_query"
    /\ pc = "searched"
    /\ results = <<>>
    /\ context' = SentinelContext
    /\ pc' = "returned"
    /\ out' = [method |-> "get_context_for_query", raised |-> FALSE,
               value |-> SentinelContext]
    /\ UNCHANGED <<op, documents, batch_size, processed_docs, bi, n_results,
                   entriesBefore, faults, results, diversity_threshold,
                   max_context_length, selected, storeVars, objVars>>
    /\ UNCHANGED svcVars

\* line 213
SelectStep ==
    /\ op = "get_context_for_query"
    /\ pc = "searched"
    /\ results # <<>>
    /\ selected' = select_diverse_results(results, diversity_threshold)
    /\ pc' = "selected"
    /\ UNCHANGED <<op, documents, batch_size, processed_docs, bi, n_results, out,
                   entriesBefore, faults, results, diversity_threshold,
                   max_context_length, context, storeVars, objVars>>
    /\ UNCHANGED svcVars

\* lines 215-242
AssembleStep ==
    /\ op = "get_context_for_query"
    /\ pc = "selected"
    /\ context' = AssembleContext(selected, max_context_length)
    /\ pc' = "returned"
    /\ out' = [method |-> "get_context_for_query", raised |-> FALSE,
               value |-> AssembleContext(selected, max_context_length)]
    /\ UNCHANGED <<op, documents, batch_size, processed_docs, bi, n_results,
                   entriesBefore, faults, results, diversity_threshold,
                   max_context_length, selected, storeVars, objVars>>
    /\ UNCHANGED svcVars

\* ---------------------------------------- the object used by one caller

Next ==
    \/ \E docs \in DocLists, bs \in BatchSizes : CallAddDocuments(docs, bs)
    \/ \E modelUp \in BOOLEAN, indexUp \in BOOLEAN : AddBatch(modelUp, indexUp)
    \/ AddDocumentsReturn
    \/ CallClearCollection
    \/ \E storeUp \in BOOLEAN : ClearDelete(storeUp)
    \/ \E storeUp \in BOOLEAN : ClearCreate(storeUp)
    \/ \E n \in SearchSizes : CallSearch(n)
    \/ CallGetContext
    \/ \E modelUp \in BOOLEAN, indexUp \in BOOLEAN : Search(modelUp, indexUp)
    \/ NoResultsStep
    \/ SelectStep
    \/ AssembleStep
    \/ Return
    \/ \E getUp \in BOOLEAN, createUp \in BOOLEAN : Restart(getUp, createUp)
    \/ Tick

Spec == Init /\ [][Next]_vars

\* ------------------------------------------------- the service of api.py

\* batch_size of add_documents as rebuild_knowledge_base calls it (line 51)
DefaultBatchSize == 100

\* the tasks that run rebuild_knowledge_base: the handler of POST /rag/rebuild
\* and run_crawling_task (line 154)
Rebuilders == {"rebuild", "crawl"}

\* a coroutine runs when the event loop picks it: no other task is running
Runnable(t) == loop = t \/ loop = "none"

\* who runs after line 182: rebuild_knowledge_base goes on to line 183 with no
\* await, so the same task
LoopAfterClear(t) == t

Finish(t, status) ==
    /\ tpc' = [tpc EXCEPT ![t] = "idle"]
    /\ tdocs' = [tdocs EXCEPT ![t] = <<>>]
    /\ resp' = [task |-> t, status |-> status]
    /\ loop' = "none"

\* run_crawling_task (lines 142-148) starts and awaits the crawler
CrawlStart ==
    /\ loop = "none"
    /\ tpc["crawl"] = "idle"
    /\ tpc' = [tpc EXCEPT !["crawl"] = "crawling"]
    /\ resp' = NoResp
    /\ UNCHANGED <<loop, tdocs, storeVars, objVars, callVars, selVars, healthVars, orchVars>>

\* the crawler raised: line 157 logs it and the task ends
CrawlFails ==
    /\ Runnable("crawl")
    /\ tpc["crawl"] = "crawling"
    /\ Finish("crawl", 0)
    /\ UNCHANGED <<storeVars, objVars, callVars, selVars, healthVars, orchVars>>

\* rebuild_knowledge_base lines 170-182 with documents found: the handler of
\* POST /rag/rebuild starts, or run_crawling_task resumes at line 154
RebuildClears(t, docs) ==
    /\ t \in Rebuilders
    /\ Runnable(t)
    /\ op = "none"
    /\ tpc[t] = (IF t = "crawl" THEN "crawling" ELSE "idle")
    /\ docs # <<>>
    /\ loop' = t
    /\ tpc' = [tpc EXCEPT ![t] = "clearing"]
    /\ tdocs' = [tdocs EXCEPT ![t] = docs]
    /\ resp' = NoResp
    /\ InvokeClearCollection
    /\ UNCHANGED <<storeVars, objVars, selVars, healthVars, orchVars>>

\* lines 178-195 with no document found: HTTPException 404 is raised inside
\* the try, caught by line 193 and raised again as 500
RebuildFindsNothing(t) ==
    /\ t \in Rebuilders
    /\ Runnable(t)
    /\ op = "none"
    /\ tpc[t] = (IF t = "crawl" THEN "crawling" ELSE "idle")
    /\ Finish(t, 500)
    /\ UNCHANGED <<storeVars, objVars, callVars, selVars, healthVars, orchVars>>

\* line 182 returns
RebuildCleared(t) ==
    /\ t \in Rebuilders
    /\ loop = t
    /\ tpc[t] = "clearing"
    /\ Returned("clear_collection")
    /\ TakeResult
    /\ tpc' = [tpc EXCEPT ![t] = "cleared"]
    /\ loop' = LoopAfterClear(t)
    /\ UNCHANGED <<tdocs, resp, storeVars, objVars, healthVars, orchVars>>

\* line 183
RebuildAdds(t) ==
    /\ t \in Rebuilders
    /\ Runnable(t)
    /\ op = "none"
    /\ tpc[t] = "cleared"
    /\ loop' = t
    /\ tpc' = [tpc EXCEPT ![t] = "adding"]
    /\ InvokeAddDocuments(tdocs[t], DefaultBatchSize)
    /\ UNCHANGED <<tdocs, resp, storeVars, objVars, selVars, healthVars, orchVars>>

\* lines 185-195: add_documents has returned and the statistics are answered,
\* or it raised and line 195 answers 500
RebuildDone(t) ==
    /\ t \in Rebuilders
    /\ loop = t
    /\ tpc[t] = "adding"
    /\ Returned("add_documents")
    /\ TakeResult
    /\ Finish(t, IF out.raised THEN 500 ELSE 200)
    /\ UNCHANGED <<storeVars, objVars, healthVars, orchVars>>

\* reset_system (lines 293-299)
ResetStart ==
    /\ loop = "none"
    /\ op = "none"
    /\ tpc["reset"] = "idle"
    /\ loop' = "reset"
    /\ tpc' = [tpc EXCEPT !["reset"] = "clearing"]
    /\ resp' = NoResp
    /\ InvokeClearCollection
    /\ UNCHANGED <<tdocs, storeVars, objVars, selVars, healthVars, orchVars>>

\* line 301
ResetDone ==
    /\ loop = "reset"
    /\ tpc["reset"] = "clearing"
    /\ Returned("clear_collection")
    /\ TakeResult
    /\ Finish("reset", 200)
    /\ UNCHANGED <<storeVars, objVars, healthVars, orchVars>>

\* search_knowledge_base (lines 198-204)
SearchStart(n) ==
    /\ loop = "none"
    /\ op = "none"
    /\ tpc["search"] = "idle"
    /\ loop' = "search"
    /\ tpc' = [tpc EXCEPT !["search"] = "searching"]
    /\ resp' = NoResp
    /\ InvokeSearch("search", n)
    /\ UNCHANGED <<tdocs, storeVars, objVars, selVars, healthVars, orchVars>>

\* lines 205-209
SearchDone ==
    /\ loop = "search"
    /\ tpc["search"] = "searching"
    /\ Returned("search")
    /\ TakeResult
    /\ Finish("search", 200)
    /\ UNCHANGED <<storeVars, objVars, healthVars, orchVars>>

ApiNext ==
    \/ CrawlStart
    \/ CrawlFails
    \/ \E t \in Rebuilders, docs \in DocLists : RebuildClears(t, docs)
    \/ \E t \in Rebuilders : RebuildFindsNothing(t)
    \/ \E t \in Rebuilders : RebuildCleared(t)
    \/ \E t \in Rebuilders : RebuildAdds(t)
    \/ \E t \in Rebuilders : RebuildDone(t)
    \/ ResetStart
    \/ ResetDone
    \/ \E n \in SearchSizes : SearchStart(n)
    \/ SearchDone
    \/ \E modelUp \in BOOLEAN, indexUp \in BOOLEAN : AddBatch(modelUp, indexUp)
    \/ AddDocumentsReturn
    \/ \E storeUp \in BOOLEAN : ClearDelete(storeUp)
    \/ \E storeUp \in BOOLEAN : ClearCreate(storeUp)
    \/ \E modelUp \in BOOLEAN, indexUp \in BOOLEAN : Search(modelUp, indexUp)
    \/ Tick

SpecApi == Init /\ [][ApiNext]_vars

\* --------------------------------------------- health_api.py: the crawl

\* the variables of the HealthRAGSystem model
ragVars == <<selVars, storeVars, objVars, callVars>>

\* the last tick of the clock of health_api.py
MaxNow == 3

\* sources of _run_crawling_process (lines 244-247)
CrawlSources ==
    <<"mayo_clinic", "harvard_nutrition", "nih_niddk", "johns_hopkins",
      "cleveland_clinic", "academy_nutrition", "aga", "iffgd">>

\* articles_from_source (line 258)
ArticlesFromSource == 25

\* a sequence without its k-th element
Without(seq, k) == SubSeq(seq, 1, k - 1) \o SubSeq(seq, k + 1, Len(seq))

\* (mutation of StartCrawling: the task is created whatever the status)
StartCrawlingUnchecked ==
    /\ started = NoAnswer
    /\ crawl_status' = [status |-> "running", start_time |-> Some(now),
                        end_time |-> None, articles_collected |-> 0,
                        sources_completed |-> 0, current_source |-> Some("starting"),
                        error |-> None]
    /\ crawl_tasks' = Append(crawl_tasks, [pc |-> "created", i |-> 0,
                                           total_articles |-> 0])
    /\ started' = [status |-> 200]
    /\ UNCHANGED <<now, ragVars, apiVars, orchVars>>

\* start_crawling (lines 113-133): the handler has no await, it runs in one
\* piece on the event loop
StartCrawling ==
    /\ started = NoAnswer
    /\ IF crawl_status.status = "running"
       THEN /\ started' = [status |-> 400]
            /\ UNCHANGED <<crawl_status, crawl_tasks>>
       ELSE /\ crawl_status' = [status |-> "running", start_time |-> Some(now),
                                end_time |-> None, articles_collected |-> 0,
                                sources_completed |-> 0,
                                current_source |-> Some("starting"), error |-> None]
            /\ crawl_tasks' = Append(crawl_tasks, [pc |-> "created", i |-> 0,
                                                   total_articles |-> 0])
            /\ started' = [status |-> 200]
    /\ UNCHANGED <<now, ragVars, apiVars, orchVars>>

\* the answer of POST /crawl/start has gone to its client
StartAnswered ==
    /\ started # NoAnswer
    /\ started' = NoAnswer
    /\ UNCHANGED <<crawl_status, crawl_tasks, now, ragVars, apiVars, orchVars>>

\* _run_crawling_process from its start to the first sleep (lines 236-255)
TaskBegins(k) ==
    /\ k \in DOMAIN crawl_tasks
    /\ crawl_tasks[k].pc = "created"
    /\ crawl_status' = [crawl_status EXCEPT !.current_source = Some(CrawlSources[1]),
                                            !.sources_completed = 0]
    /\ crawl_tasks' = [crawl_tasks EXCEPT ![k].pc = "sleeping"]
    /\ UNCHANGED <<now, started, ragVars, apiVars, orchVars>>

\* from one sleep to the next (lines 257-262, then 250-255 for the next source)
TaskNextSource(k) ==
    /\ k \in DOMAIN crawl_tasks
    /\ crawl_tasks[k].pc = "sleeping"
    /\ crawl_tasks[k].i + 1 < Len(CrawlSources)
    /\ LET total == crawl_tasks[k].total_articles + ArticlesFromSource
           i == crawl_tasks[k].i + 1
       IN  /\ crawl_status' = [crawl_status EXCEPT
                                   !.articles_collected = total,
                                   !.current_source = Some(CrawlSources[i + 1]),
                                   !.sources_completed = i]
           /\ crawl_tasks' = [crawl_tasks EXCEPT ![k].i = i, ![k].total_articles = total]
    /\ UNCHANGED <<now, started, ragVars, apiVars, orchVars>>

\* (mutation of TaskCompletes: the task ends and the status is not updated)
TaskCompletesSilently(k) ==
    /\ k \in DOMAIN crawl_tasks
    /\ crawl_tasks[k].pc = "sleeping"
    /\ crawl_tasks[k].i + 1 = Len(CrawlSources)
    /\ crawl_status' = [crawl_status EXCEPT
                            !.articles_collected =
                                crawl_tasks[k].total_articles + ArticlesFromSource]
    /\ crawl_tasks' = Without(crawl_tasks, k)
    /\ UNCHANGED <<now, started, ragVars, apiVars, orchVars>>

\* from the last sleep to the end of the task (lines 257-272)
TaskCompletes(k) ==
    /\ k \in DOMAIN crawl_tasks
    /\ crawl_tasks[k].pc = "sleeping"
    /\ crawl_tasks[k].i + 1 = Len(CrawlSources)
    /\ crawl_status' = [crawl_status EXCEPT
                            !.articles_collected =
                                crawl_tasks[k].total_articles + ArticlesFromSource,
                            !.status = "completed",
                            !.end_time = Some(now),
                            !.current_source = None,
                            !.sources_completed = Len(CrawlSources)]
    /\ crawl_tasks' = Without(crawl_tasks, k)
    /\ UNCHANGED <<now, started, ragVars, apiVars, orchVars>>

\* an Exception in the body of the task (lines 274-280)
TaskRaises(k) ==
    /\ k \in DOMAIN crawl_tasks
    /\ crawl_status' = [crawl_status EXCEPT !.status = "error",
                                            !.error = Some("error"),
                                            !.end_time = Some(now)]
    /\ crawl_tasks' = Without(crawl_tasks, k)
    /\ UNCHANGED <<now, started, ragVars, apiVars, orchVars>>

\* time passes on the clock of health_api.py
HealthTick ==
    /\ now < MaxNow
    /\ now' = now + 1
    /\ UNCHANGED <<crawl_status, crawl_tasks, started, ragVars, apiVars, orchVars>>

\* no HealthRAGSystem is used by health_api.py or by the orchestrator
RagAtRest ==
    /\ results = <<>>
    /\ diversity_threshold = DefaultThreshold
    /\ max_context_length = DefaultContextLength
    /\ selected = <<>>
    /\ context = NoContext
    /\ op = "none"
    /\ pc = "idle"
    /\ documents = <<>>
    /\ batch_size = 0
    /\ processed_docs = <<>>
    /\ bi = 0
    /\ n_results = 0
    /\ out = NoOut
    /\ entriesBefore = NoEntries
    /\ faults = {}
    /\ collExists = TRUE
    /\ handleLive = TRUE
    /\ entries = NoEntries
    /\ collDim = 0
    /\ dupPolicy = "ignore"
    /\ modelDim = 384
    /\ clock = 1

HealthInit ==
    /\ RagAtRest
    /\ ApiIdle
    /\ HealthIdle
    /\ OrchIdle

\* a step of a task that the event loop has scheduled
TaskStep ==
    \E k \in DOMAIN crawl_tasks : TaskBegins(k) \/ TaskNextSource(k) \/ TaskCompletes(k)

HealthNext ==
    \/ StartCrawling
    \/ StartAnswered
    \/ \E k \in DOMAIN crawl_tasks : TaskBegins(k)
    \/ \E k \in DOMAIN crawl_tasks : TaskNextSource(k)
    \/ \E k \in DOMAIN crawl_tasks : TaskCompletes(k)
    \/ \E k \in DOMAIN crawl_tasks : TaskRaises(k)
    \/ HealthTick

SpecHealth == HealthInit /\ [][HealthNext]_vars

\* the event loop runs every task that is ready, and every sleep ends
SpecHealthFair == SpecHealth /\ WF_vars(TaskStep)

\* ------------------------- MedicalCrawlerOrchestrator.crawl_specific_sources

\* source_names of the calls: known crawlers, one name without a crawler
SourceLists ==
    {<<>>, <<"mayo_clinic">>, <<"pubmed", "webmd">>, <<"aga", "mayo_clinic">>}

\* active_crawlers of crawl_all_sources (lines 101-104)
RECURSIVE ActiveCrawlers(_, _)
ActiveCrawlers(priorities, priority_tiers) ==
    IF priority_tiers = <<>>
    THEN <<>>
    ELSE (IF Head(priority_tiers) \in DOMAIN priorities
          THEN priorities[Head(priority_tiers)]
          ELSE <<>>) \o ActiveCrawlers(priorities, Tail(priority_tiers))

\* the loop of lines 110-113: the next position after k whose name has a crawler,
\* Len(active) + 1 when there is none
RECURSIVE NextKnown(_, _)
NextKnown(active, k) ==
    IF k + 1 > Len(active) THEN Len(active) + 1
    ELSE IF active[k + 1] \in Crawlers THEN k + 1
    ELSE NextKnown(active, k + 1)

\* crawl_specific_sources from its start to the first await that suspends it
\* (lines 322-326, 92-119); with no crawler to run nothing suspends it and it
\* runs to its return (lines 142-147, 330-334)
CallSpecific(c, source_names) ==
    /\ calls[c].pc = "idle"
    /\ LET original == crawler_priorities
           custom == [custom |-> source_names]
           active == ActiveCrawlers(custom, <<"custom">>)
           first == NextKnown(active, 0)
       IN  IF first <= Len(active)
           THEN /\ crawler_priorities' = custom
                /\ calls' = [calls EXCEPT ![c] =
                                [pc |-> "crawling", source_names |-> source_names,
                                 original_priorities |-> original,
                                 active_crawlers |-> active, k |-> first,
                                 crawled |-> <<>>, results |-> {}]]
           ELSE /\ crawler_priorities' = original
                /\ calls' = [calls EXCEPT ![c] =
                                [pc |-> "returned", source_names |-> source_names,
                                 original_priorities |-> original,
                                 active_crawlers |-> active, k |-> first,
                                 crawled |-> <<>>, results |-> {}]]
    /\ UNCHANGED <<ragVars, apiVars, healthVars>>

\* the crawler of one source is done, with articles or without, and the loop
\* goes to the next source (lines 119-140, 110-119)
CrawlerDone(c, found) ==
    /\ calls[c].pc = "crawling"
    /\ NextKnown(calls[c].active_crawlers, calls[c].k) <= Len(calls[c].active_crawlers)
    /\ LET name == calls[c].active_crawlers[calls[c].k]
       IN  calls' = [calls EXCEPT
                        ![c].crawled = Append(@, name),
                        ![c].results = IF found THEN @ \cup {name} ELSE @,
                        ![c].k = NextKnown(calls[c].active_crawlers, calls[c].k)]
    /\ UNCHANGED <<crawler_priorities, ragVars, apiVars, healthVars>>

\* the crawler of the last source is done and crawl_specific_sources returns
\* (lines 119-147, 330-334)
CallReturns(c, found) ==
    /\ calls[c].pc = "crawling"
    /\ NextKnown(calls[c].active_crawlers, calls[c].k) > Len(calls[c].active_crawlers)
    /\ LET name == calls[c].active_crawlers[calls[c].k]
       IN  calls' = [calls EXCEPT
                        ![c].crawled = Append(@, name),
                        ![c].results = IF found THEN @ \cup {name} ELSE @,
                        ![c].k = Len(calls[c].active_crawlers) + 1,
                        ![c].pc = "returned"]
    /\ crawler_priorities' = calls[c].original_priorities
    /\ UNCHANGED <<ragVars, apiVars, healthVars>>

\* the call is cancelled at an await: CancelledError passes the handlers of
\* lines 138 and 196, and the finally of lines 330-332 runs
CallCancelled(c) ==
    /\ calls[c].pc = "crawling"
    /\ calls' = [calls EXCEPT ![c].pc = "raised"]
    /\ crawler_priorities' = calls[c].original_priorities
    /\ UNCHANGED <<ragVars, apiVars, healthVars>>

\* the caller has taken the result
CallTaken(c) ==
    /\ calls[c].pc \in {"returned", "raised"}
    /\ calls' = [calls EXCEPT ![c] = NoCall]
    /\ UNCHANGED <<crawler_priorities, ragVars, apiVars, healthVars>>

OrchInit ==
    /\ RagAtRest
    /\ ApiIdle
    /\ HealthIdle
    /\ OrchIdle

OrchNext ==
    \/ \E c \in Calls, source_names \in SourceLists : CallSpecific(c, source_names)
    \/ \E c \in Calls, found \in BOOLEAN : CrawlerDone(c, found)
    \/ \E c \in Calls, found \in BOOLEAN : CallReturns(c, found)
    \/ \E c \in Calls : CallCancelled(c)
    \/ \E c \in Calls : CallTaken(c)

SpecOrch == OrchInit /\ [][OrchNext]_vars

\* ------------------------------------------------- get_collection_stats

\* the limit of line 294
StatsLimit == 1000

\* how many entries of e come before id in the order of the ids
Rank(e, id) == Cardinality({b \in DOMAIN e : IdLess(b, id)})

\* collection.get(limit): the ids of `limit` entries; which ones is the store's
\* affair: here the first ones by id, or the last ones
SampleIds(e, limit, fromStart) ==
    IF limit >= Count(e)
    THEN DOMAIN e
    ELSE IF fromStart
         THEN {id \in DOMAIN e : Rank(e, id) < limit}
         ELSE {id \in DOMAIN e : Rank(e, id) >= Count(e) - limit}

\* the dict built by the loop of lines 299-304 for one metadata field
Distribution(e, ids, field) ==
    [v \in {e[id].metadata[field] : id \in ids} |->
        Cardinality({id \in ids : e[id].metadata[field] = v})]

\* get_collection_stats() called on the idle object
CallGetCollectionStats ==
    /\ op = "none"
    /\ op' = "get_collection_stats"
    /\ pc' = "stats"
    /\ entriesBefore' = entries
    /\ UNCHANGED <<documents, batch_size, processed_docs, bi, n_results, out, faults,
                   storeVars, objVars, selVars, svcVars>>

\* lines 290-315: count, the sample and its distributions; an error is logged
\* and answered as {'error': ...}
GetCollectionStats(storeUp, fromStart) ==
    /\ op = "get_collection_stats"
    /\ pc = "stats"
    /\ pc' = "returned"
    /\ IF storeUp /\ collExists /\ handleLive
       THEN LET ids == SampleIds(entries, Min(StatsLimit, Count(entries)), fromStart)
            IN  /\ out' = [method |-> "get_collection_stats", raised |-> FALSE,
                           value |-> [total_chunks |-> Count(entries),
                                      sources |-> Distribution(entries, ids, "source"),
                                      content_types |->
                                          Distribution(entries, ids, "content_type"),
                                      collection_name |-> "gut_health_knowledge"]]
                /\ UNCHANGED faults
       ELSE /\ out' = [method |-> "get_collection_stats", raised |-> FALSE,
                       value |-> [error |-> "error"]]
            /\ faults' = faults \cup {IF storeUp THEN "CollectionNotFound"
                                                  ELSE "IndexUnavailable"}
    /\ UNCHANGED <<op, documents, batch_size, processed_docs, bi, n_results,
                   entriesBefore, storeVars, objVars, selVars, svcVars>>

\* numbers of entries on both sides of the limit
StatsSizes == {0, 1, 2, 3, 999, 1000, 1001}

\* the entry at position i of a collection whose first m1 entries come from
\* one source and whose first m2 entries are of one content type
StatsEntry(i, m1, m2) ==
    [text |-> Text(<<"fiber">>, 900),
     metadata |-> [source |-> IF i < m1 THEN "mayo" ELSE "nih",
                   title |-> "A", author |-> "", chunk_index |-> 0, total_chunks |-> 1,
                   content_type |-> IF i < m2 THEN "article" ELSE "guideline"],
     embedding |-> Embed(Text(<<"fiber">>, 900), 384)]

\* collections as ingestions with a large batch_size leave them
StatsCollections ==
    { [id \in {<<1, i>> : i \in 0..(n - 1)} |-> StatsEntry(id[2], m1, m2)] :
        n \in StatsSizes, m1 \in {0, 1, 2, 500, 1001}, m2 \in {0, 1, 1000} }

StatsInit ==
    /\ op = "none"
    /\ pc = "idle"
    /\ documents = <<>>
    /\ batch_size = 0
    /\ processed_docs = <<>>
    /\ bi = 0
    /\ n_results = 0
    /\ out = NoOut
    /\ entriesBefore = NoEntries
    /\ faults = {}
    /\ collExists = TRUE
    /\ entries \in StatsCollections
    /\ collDim = IF entries = NoEntries THEN 0 ELSE 384
    /\ dupPolicy = "ignore"
    /\ handleLive = TRUE
    /\ modelDim = 384
    /\ clock = 1
    /\ results = <<>>
    /\ diversity_threshold = DefaultThreshold
    /\ max_context_length = DefaultContextLength
    /\ selected = <<>>
    /\ context = NoContext
    /\ ApiIdle
    /\ HealthIdle
    /\ OrchIdle

StatsNext ==
    \/ CallGetCollectionStats
    \/ \E storeUp \in BOOLEAN, fromStart \in BOOLEAN : GetCollectionStats(storeUp, fromStart)
    \/ Return

SpecStats == StatsInit /\ [][StatsNext]_vars

\* --------------------------------------- _chunk_document on one document

\* word patterns: words of several lengths, one-letter words, long words
Patterns ==
    { <<"gut", "fiber", "a", "microbiome", "diet", "of", "fermented">>,
      <<"a">>,
      <<"gastroenterology", "probiotics">> }

\* numbers of words: around the window of 1000 words, the stride of 800, and
\* tails on either side of the floor of 100 characters
WordCounts ==
    {0, 1, 9, 10, 30, 50, 51, 120, 799, 800, 801, 806, 810, 830, 850, 851, 999, 1000,
     1001, 1200, 1600, 1601, 1609, 1640, 1800, 2000, 2400, 2410}

\* the first n words of a pattern repeated
ChunkDoc(pattern, n) ==
    [Doc("C", pattern, n, TRUE) EXCEPT !.content = Slice(@, 0, n)]

ChunkDocs == { ChunkDoc(pattern, n) : pattern \in Patterns, n \in WordCounts }

\* _chunk_document(doc) as line 66 calls it, before its loop
ChunkInit ==
    /\ op = "_chunk_document"
    /\ pc = "windows"
    /\ documents \in { <<d>> : d \in ChunkDocs }
    /\ batch_size = 0
    /\ processed_docs = <<>>
    /\ bi = 0
    /\ n_results = 0
    /\ out = NoOut
    /\ entriesBefore = NoEntries
    /\ faults = {}
    /\ collExists = TRUE
    /\ entries = NoEntries
    /\ collDim = 0
    /\ dupPolicy = "ignore"
    /\ handleLive = TRUE
    /\ modelDim = 384
    /\ clock = 1
    /\ results = <<>>
    /\ diversity_threshold = DefaultThreshold
    /\ max_context_length = DefaultContextLength
    /\ selected = <<>>
    /\ context = NoContext
    /\ ApiIdle
    /\ HealthIdle
    /\ OrchIdle

\* one pass of the loop of lines 96-117: bi is the word offset i,
\* processed_docs the list `chunks`
ChunkWindow ==
    /\ op = "_chunk_document"
    /\ pc = "windows"
    /\ bi < NumWords(documents[1].content)
    /\ processed_docs' = KeepWindow(documents[1], bi, processed_docs, DefaultChunkSize)
    /\ bi' = bi + (DefaultChunkSize - DefaultOverlap)
    /\ UNCHANGED <<op, pc, documents, batch_size, n_results, out, entriesBefore,
                   faults, storeVars, objVars, selVars, svcVars>>

\* lines 89-90, and lines 119-123 when the loop is over
ChunkReturn ==
    /\ op = "_chunk_document"
    /\ pc = "windows"
    /\ bi >= NumWords(documents[1].content)
    /\ pc' = "returned"
    /\ processed_docs' = WithTotals(processed_docs)
    /\ out' = [method |-> "_chunk_document", raised |-> FALSE,
               value |-> WithTotals(processed_docs)]
    /\ UNCHANGED <<op, documents, batch_size, bi, n_results, entriesBefore,
                   faults, storeVars, objVars, selVars, svcVars>>

ChunkNext == ChunkWindow \/ ChunkReturn

SpecChunk == ChunkInit /\ [][ChunkNext]_vars

\* ----------------------- get_context_for_query on drawn search results

\* distances a query can report, in tenths
Distances == {2, 5, 6}

\* the metadata of the drawn candidates
Metadatas ==
    { [title |-> "Fiber", author |-> "", source |-> "mayo"] }

Candidates ==
    { FormatResult(c, m, d) : c \in Texts, m \in Metadatas, d \in Distances }

\* the index answers closest first
Ascending(res) == \A i \in 1..(Len(res) - 1) : res[i].distance <= res[i + 1].distance

\* contents with no word in common
LongWords == <<"gut", "fiber", "diet", "food", "oats", "kefir", "bran", "rye", "kale", "miso">>

\* an answer of n candidates at distance 0.2, mutually diverse but for the one
\* at position d (if any), which repeats the content of the first
LongList(n, d) ==
    [i \in 1..n |->
        FormatResult(Text(<<LongWords[IF i = d THEN 1 ELSE i]>>, 26),
                     CHOOSE m \in Metadatas : TRUE, 2)]

\* answers long enough to fill the selection: up to the 10 that line 207 asks for
LongLists ==
    { LongList(n, d) : n \in (MaxSelected + 1)..ContextNResults,
                       d \in {0} \cup 2..ContextNResults }

CandidateLists ==
    UNION { {r \in [1..n -> Candidates] : Ascending(r)} : n \in 0..MaxCand }
    \cup LongLists

Thresholds == { <<1, 2>>, <<7, 10>> }

\* budgets: one short block fits; two blocks fit; the default
ContextLengths == {130, 300, 4000}

\* get_context_for_query after line 207, search having returned `results`
SelInit ==
    /\ op = "get_context_for_query"
    /\ pc = "searched"
    /\ documents = <<>>
    /\ batch_size = 0
    /\ processed_docs = <<>>
    /\ bi = 0
    /\ n_results = ContextNResults
    /\ out = NoOut
    /\ entriesBefore = NoEntries
    /\ faults = {}
    /\ collExists = TRUE
    /\ entries = NoEntries
    /\ collDim = 0
    /\ dupPolicy = "ignore"
    /\ handleLive = TRUE
    /\ modelDim = 384
    /\ clock = 1
    /\ results \in CandidateLists
    /\ diversity_threshold \in Thresholds
    /\ max_context_length \in ContextLengths
    /\ selected = <<>>
    /\ context = NoContext
    /\ ApiIdle
    /\ HealthIdle
    /\ OrchIdle

SelNext == NoResultsStep \/ SelectStep \/ AssembleStep

SpecSelect == SelInit /\ [][SelNext]_vars

\* ------------------------------------------------- claims on the selection

Similarity(a, b) == calculate_text_similarity(a.content, b.content)

\* C1 as stated: every selected result but the first has a similarity strictly
\* below diversity_threshold to every result selected before it, and a
\* relevance above 0.5.
C1_AsStated ==
    (op = "get_context_for_query" /\ pc \in {"selected", "returned"}) =>
        \A k \in 2..Len(selected) :
            /\ \A j \in 1..(k - 1) :
                   FracLt(Similarity(selected[k], selected[j]), diversity_threshold)
            /\ selected[k].relevance_score > MinRelevance

\* C1 amended: every selected result but the first has a similarity of at most
\* diversity_threshold (equality admits) to every result selected before it,
\* and a relevance above 0.5.
C1_AdmittedOnlyIfDiverseAndRelevant ==
    (op = "get_context_for_query" /\ pc \in {"selected", "returned"}) =>
        \A k \in 2..Len(selected) :
            /\ \A j \in 1..(k - 1) :
                   ~FracGt(Similarity(selected[k], selected[j]), diversity_threshold)
            /\ selected[k].relevance_score > MinRelevance

\* C1's case: a result was admitted whose similarity to an earlier selected
\* result equals the threshold.
C1_Witness ==
    /\ op = "get_context_for_query" /\ pc = "selected"
    /\ \E k \in 2..Len(selected) : \E j \in 1..(k - 1) :
           LET sim == Similarity(selected[k], selected[j])
           IN  ~FracGt(sim, diversity_threshold) /\ ~FracLt(sim, diversity_threshold)

NoneAboveFloor(res) == \A i \in 1..Len(res) : res[i].relevance_score <= MinRelevance

IsSentinel(c) == c.text = Sentinel

\* C2 as stated: with no candidate, or none above the relevance floor, nothing
\* is selected and get_context_for_query returns the sentinel.
C2_AsStated ==
    (pc = "returned" /\ NoneAboveFloor(results)) =>
        (selected = <<>> /\ IsSentinel(context))

\* C2 amended: with no candidate, nothing is selected and the sentinel is
\* returned; with candidates none of which is above the floor, exactly the top
\* candidate is selected, and the sentinel is returned only when that one
\* block does not fit max_context_length.
C2_NothingAboveFloor ==
    (pc = "returned" /\ NoneAboveFloor(results)) =>
        IF results = <<>>
        THEN selected = <<>> /\ IsSentinel(context)
        ELSE /\ selected = <<results[1]>>
             /\ IsSentinel(context) <=> BlockLen(results[1]) > max_context_length
             /\ ~IsSentinel(context) => context.blocks = <<results[1]>>

\* C2's case: several candidates, none above the floor, and a context returned.
C2_Witness ==
    /\ pc = "returned"
    /\ Len(results) >= 2
    /\ NoneAboveFloor(results)
    /\ ~IsSentinel(context)

\* --------------------------------------- claims on the object's operations

\* C3: a search or get_context_for_query during which the embedding model or
\* the index raised gives its caller an error, or at least a value other than
\* that of a query that found nothing (the empty list, the sentinel).
C3_FailureDistinctFromEmpty ==
    /\ (Returned("search") /\ faults # {}) => (out.raised \/ out.value # <<>>)
    /\ (Returned("get_context_for_query") /\ faults # {}) =>
           (out.raised \/ ~IsSentinel(out.value))

\* C4: add_documents does not return normally after the embedding or the index
\* write of one of its batches failed.
C4_BatchFailureSurfaced ==
    (Returned("add_documents") /\ faults # {}) => out.raised

\* C5: when add_documents returns (here: with no error raised inside it), the
\* collection's count has grown by the number of chunks produced.
C5_AllChunksUpserted ==
    (Returned("add_documents") /\ ~out.raised /\ faults = {}) =>
        Count(entries) = Count(entriesBefore) + Len(processed_docs)

\* a step in which collection.add accepted the current batch
BatchAccepted ==
    /\ op = "add_documents"
    /\ pc = "batches"
    /\ op' = op
    /\ bi' = bi + batch_size
    /\ faults' = faults
    /\ AddError(CurrentBatch, TRUE) = ""

\* C6: a chunk that is written gets an id that the collection holds for no
\* other chunk (only the same chunk, ingested again, may meet its id).
C6_IdsUnique ==
    [][BatchAccepted =>
          \A k \in 1..Len(CurrentBatch) :
              LET id == BatchIds(CurrentBatch, clock)[k]
              IN  id \in DOMAIN entries =>
                      ChunkKey(entries[id]) = ChunkKey(CurrentBatch[k])]_vars

\* C7: after clear_collection the collection's count is 0, and a search on it
\* returns the empty list and get_context_for_query the sentinel.
C7_ClearEmpties ==
    /\ Returned("clear_collection") =>
           (collExists /\ handleLive /\ Count(entries) = 0)
    /\ (Returned("search") /\ Count(entries) = 0) => out.value = <<>>
    /\ (Returned("get_context_for_query") /\ Count(entries) = 0) =>
           IsSentinel(out.value)

\* C8: whenever a caller can look (no call in progress, or a call has
\* returned), the collection exists and self.collection refers to it; after
\* clear_collection it is the old collection or an empty one.
C8_ClearAtomic ==
    /\ (op = "none" \/ pc = "returned") => (collExists /\ handleLive)
    /\ Returned("clear_collection") => (entries = entriesBefore \/ entries = NoEntries)

\* C10: an add_documents whose batch met a collection of another dimension
\* raises to its caller and leaves the entries as they were.
C10_DimensionMismatchSurfaced ==
    (Returned("add_documents") /\ "DimensionMismatch" \in faults) =>
        (out.raised /\ entries = entriesBefore)

\* the tasks between the start and the end of a clear or of a rebuild
Writers == {t \in Tasks : tpc[t] \in {"clearing", "cleared", "adding"}}

\* the handlers of api.py take turns: no query runs while a clear or a rebuild
\* is under way, and no two of those are under way together
Serialized ==
    /\ tpc["search"] = "searching" => Writers = {}
    /\ Cardinality(Writers) <= 1

\* C9: clear, add_documents and search on the collection are serialized (no
\* query between the start and the end of a clear or of a rebuild, never two
\* writers at once), so that a query of POST /rag/search never observes a
\* half-cleared collection: its search does not fail on a collection that was
\* deleted and not created again
C9_QueryNeverSeesHalfCleared ==
    /\ Serialized
    /\ (tpc["search"] = "searching" /\ Returned("search"))
           => "CollectionNotFound" \notin faults

\* ------------------------------------------ claims on the context assembly

GotContext == op = "get_context_for_query" /\ pc = "returned"

\* the shortest block a context can hold: "Source: ", an empty title, " ",
\* "\n", a content of MinChunkChars characters, "\n---\n"
MinBlockLen == Len("Source: ") + 1 + 1 + MinChunkChars + 5

\* C11: the blocks of the returned context are a prefix of the selected
\* results, each whole; the loop stopped at the first block that would take the
\* running total over max_context_length and took no later block; the lengths
\* of the included blocks sum to at most max_context_length.
C11_WholeBlockPrefix ==
    GotContext =>
        LET n == Len(context.blocks)
        IN  /\ n <= Len(selected)
            /\ context.blocks = SubSeq(selected, 1, n)
            /\ SumBlockLen(context.blocks) <= max_context_length
            /\ n < Len(selected) =>
                   SumBlockLen(context.blocks) + BlockLen(selected[n + 1])
                       > max_context_length

\* C11's case: the loop stopped at a block that did not fit although a later,
\* shorter block would have fitted.
C11_Witness ==
    /\ GotContext
    /\ Len(context.blocks) >= 1
    /\ \E k \in (Len(context.blocks) + 2)..Len(selected) :
           SumBlockLen(context.blocks) + BlockLen(selected[k]) <= max_context_length

\* C12: the returned string, header and separators counted, is never longer
\* than max_context_length plus one full block (the shortest block there is).
C12_ContextBudget ==
    GotContext => ContextLen(context) <= max_context_length + MinBlockLen

\* C12's case: a context of several blocks that is longer than
\* max_context_length, for its header and separators.
C12_Witness ==
    /\ GotContext
    /\ Len(context.blocks) >= 2
    /\ ContextLen(context) > max_context_length

\* C13: get_context_for_query never returns an empty string: the sentinel,
\* exactly, when the search yields no result or the first block does not fit
\* max_context_length; otherwise the header and at least one block.
C13_SentinelOrBlocks ==
    Returned("get_context_for_query") =>
        /\ ContextLen(out.value) > 0
        /\ IF results = <<>> \/ BlockLen(results[1]) > max_context_length
           THEN out.value = SentinelContext
           ELSE out.value.text = Header /\ Len(out.value.blocks) >= 1

\* C13's case: the search found a chunk and not even its block fits.
C13_Witness ==
    /\ Returned("get_context_for_query")
    /\ results # <<>>
    /\ BlockLen(results[1]) > max_context_length
    /\ out.value = SentinelContext

\* ------------------------------------------ further claims on the selection

Selecting == op = "get_context_for_query" /\ pc \in {"selected", "returned"}

\* results consists of two or more near-duplicates (pairwise similarity above
\* the threshold) and, at position x, one chunk distinct from each of them
\* (similarity not above the threshold) with a relevance above 0.5
DuplicatesAndDistinct(x) ==
    LET others == (1..Len(results)) \ {x}
    IN  /\ x \in 1..Len(results)
        /\ Cardinality(others) >= 2
        /\ results[x].relevance_score > MinRelevance
        /\ \A i \in others : \A j \in others :
               FracGt(Similarity(results[i], results[j]), diversity_threshold)
        /\ \A i \in others :
               ~FracGt(Similarity(results[x], results[i]), diversity_threshold)

\* C14: of a candidate list made of near-duplicates and one distinct chunk with
\* relevance above 0.5, the selection holds the distinct chunk and at most one
\* of the near-duplicates, wherever the distinct chunk stands in the list.
C14_OneOfTheDuplicates ==
    Selecting =>
        \A x \in 1..Len(results) :
            DuplicatesAndDistinct(x) =>
                /\ \E k \in 1..Len(selected) : selected[k] = results[x]
                /\ Cardinality({k \in 1..Len(selected) : selected[k] # results[x]}) <= 1

\* C14's case: the distinct chunk stands between two near-duplicates, and one
\* of them was selected with it.
C14_Witness ==
    /\ Selecting
    /\ Len(results) = 3
    /\ DuplicatesAndDistinct(2)
    /\ selected = <<results[1], results[2]>>

\* sel takes elements of res at strictly increasing positions
IsSubsequence(sel, res) ==
    \E f \in [1..Len(sel) -> 1..Len(res)] :
        /\ \A k \in 1..Len(sel) : sel[k] = res[f[k]]
        /\ \A k \in 1..(Len(sel) - 1) : f[k] < f[k + 1]

\* C15: the selection is an order-preserving subsequence of the candidate
\* list, nothing reordered or duplicated, and its first element is the first
\* candidate whenever there is a candidate.
C15_SubsequenceFromTheTop ==
    Selecting =>
        /\ IsSubsequence(selected, results)
        /\ results # <<>> => (selected # <<>> /\ selected[1] = results[1])

\* C15's case: a candidate in the middle was rejected and a later one selected.
C15_Witness ==
    /\ Selecting
    /\ Len(results) = 3
    /\ results[2] # results[3]
    /\ results[1] # results[3]
    /\ selected = <<results[1], results[3]>>

\* C16: the selection never holds more than 5 results, whatever candidates
\* follow the fifth selected one, and the context never holds more than 5
\* blocks.
C16_AtMostFive ==
    Selecting =>
        /\ Len(selected) <= MaxSelected
        /\ Len(context.blocks) <= MaxSelected

\* C16's case: 5 results are selected and a later candidate that passes the
\* admission test was left out; all 5 blocks are in the context.
C16_Witness ==
    /\ GotContext
    /\ Len(selected) = MaxSelected
    /\ Len(context.blocks) = MaxSelected
    /\ \E k \in 1..Len(results) :
           /\ \A j \in 1..Len(selected) : selected[j] # results[k]
           /\ Admits(results[k], selected, diversity_threshold)

\* ---------------------------------------------------- claims on ingestion

\* the chunks of every document of docs that can be chunked
RECURSIVE ChunksOfTheGood(_)
ChunksOfTheGood(docs) ==
    IF docs = <<>>
    THEN <<>>
    ELSE (IF ChunkingRaises(Head(docs))
          THEN <<>>
          ELSE chunk_document(Head(docs), DefaultChunkSize, DefaultOverlap))
         \o ChunksOfTheGood(Tail(docs))

\* C17: a document whose chunking raises is skipped and does not abort the
\* ingestion: add_documents returns normally, and every chunk of every other
\* document, before and after the bad one, was passed to the batch upsert.
C17_BadDocumentSkipped ==
    Returned("add_documents") =>
        /\ ~out.raised
        /\ processed_docs = ChunksOfTheGood(documents)
        /\ bi >= Len(processed_docs)

\* ------------------------------------------------------- claims on search

\* result r is the answer for an entry of the collection: its own content,
\* metadata and distance
OfAnEntry(r) ==
    \E id \in DOMAIN entries :
        /\ r.content = entries[id].text
        /\ r.metadata = entries[id].metadata
        /\ r.distance = DistanceOf(entries[id].text)

\* C18: search returns at most n_results results, each with the content,
\* metadata and distance of one entry and relevance_score = 1 - distance, the
\* closest entries first, relevance_score never increasing along the list.
C18_NearestFirst ==
    (Returned("search") /\ faults = {}) =>
        LET v == out.value
        IN  /\ Len(v) = Min(n_results, Count(entries))
            /\ \A k \in 1..Len(v) :
                   OfAnEntry(v[k]) /\ v[k].relevance_score = 10 - v[k].distance
            /\ \A k \in 1..(Len(v) - 1) :
                   v[k].relevance_score >= v[k + 1].relevance_score
            /\ \A id \in DOMAIN entries, k \in 1..Len(v) :
                   DistanceOf(entries[id].text) < v[k].distance =>
                       \E j \in 1..(k - 1) : v[j].content = entries[id].text

\* C18's case: the collection holds more than n_results entries and the
\* results returned are at different distances.
C18_Witness ==
    /\ Returned("search")
    /\ Len(out.value) = n_results
    /\ Count(entries) > n_results
    /\ out.value[1].relevance_score > out.value[n_results].relevance_score

\* ------------------------------------------------------ claims on restart

\* C19: the contents survive a restart: the new object is attached to the
\* collection of that name with its entries and count as they were, and a new,
\* empty collection was created only when there was none of that name.
C19_ContentsSurviveRestart ==
    /\ op = "__init__" => (entries = entriesBefore /\ Count(entries) = Count(entriesBefore))
    /\ Returned("__init__") =>
           /\ collExists /\ handleLive
           /\ entriesBefore # NoEntries => faults = {}

\* C19's case: the process ended in the middle of an ingestion and the new
\* object is attached to the collection with the entries written so far.
C19_Witness ==
    /\ Returned("__init__")
    /\ faults = {}
    /\ Count(entries) >= 2
    /\ entries # Preloaded

\* ------------------------------------------------- claims on the chunker

\* the part of a chunk that is not the overlap with the chunk before it: the
\* whole first chunk, a later chunk without its first DefaultOverlap words
NonOverlapping(chunks, k) ==
    IF k = 1
    THEN chunks[k].text
    ELSE Slice(chunks[k].text, DefaultOverlap, NumWords(chunks[k].text))

\* the parts NonOverlapping of chunks k.. are, word for word, the words of
\* content from offset pos to its end
RECURSIVE Reconstructs(_, _, _, _)
Reconstructs(chunks, k, content, pos) ==
    IF k > Len(chunks)
    THEN pos = NumWords(content)
    ELSE LET part == NonOverlapping(chunks, k)
         IN  /\ part = Slice(content, pos, NumWords(part))
             /\ Reconstructs(chunks, k + 1, content, pos + NumWords(part))

\* the chunker returns what the recursive definition used by add_documents says
ChunkerAgrees ==
    Returned("_chunk_document") =>
        out.value = chunk_document(documents[1], DefaultChunkSize, DefaultOverlap)

\* C20: the non-overlapping portions of the returned chunks, concatenated in
\* order, are the document's words; words are missing only when the trailing
\* window was dropped for being under 100 characters, and no window before the
\* trailing one is ever dropped.
C20_ChunksCoverTheWords ==
    /\ Returned("_chunk_document") =>
           \/ Reconstructs(out.value, 1, documents[1].content, 0)
           \/ /\ out.value = <<>>
              /\ TextLen(documents[1].content) < MinChunkChars
    /\ (op = "_chunk_document" /\ pc = "windows"
        /\ bi + (DefaultChunkSize - DefaultOverlap) < NumWords(documents[1].content)) =>
           TextLen(Slice(documents[1].content, bi, DefaultChunkSize)) >= MinChunkChars

\* C20's case: three chunks were returned and a trailing window of the
\* document was dropped.
C20_Witness ==
    /\ Returned("_chunk_document")
    /\ Len(out.value) = 3
    /\ bi = 4 * (DefaultChunkSize - DefaultOverlap)

Chunked == Returned("_chunk_document")

\* the word offset of the k-th window (k from 1) of the loop of line 96
OffsetOf(k) == (k - 1) * (DefaultChunkSize - DefaultOverlap)

\* the k-th chunk returned is the k-th window of the document
ChunkIsWindow(k) ==
    out.value[k].text = Slice(documents[1].content, OffsetOf(k), DefaultChunkSize)

\* the words the k-th chunk shares with the next one: from the next one's offset
\* to the end of the k-th
SharedWords(k) ==
    OffsetOf(k) + NumWords(out.value[k].text) - OffsetOf(k + 1)

\* C21: any two consecutive chunks of a document share the same number of
\* words, the configured overlap, the last chunk included.
C21_FixedOverlap ==
    Chunked =>
        \A k \in 1..(Len(out.value) - 1) :
            /\ ChunkIsWindow(k) /\ ChunkIsWindow(k + 1)
            /\ SharedWords(k) = DefaultOverlap

Stride == DefaultChunkSize - DefaultOverlap

\* the numbers j of the windows of a content: those with offset j * Stride
\* inside it
WindowNumbers(content) == {j \in 0..(NumWords(content) \div Stride) : j * Stride < NumWords(content)}

WindowAt(content, j) == Slice(content, j * Stride, DefaultChunkSize)

\* C22: the windows start at word offsets 0, s, 2s, ... with s = chunk_size -
\* overlap and hold the next chunk_size words, fewer only at the end; every
\* chunk's text is the single-space join of one such window, and the chunks
\* come in increasing offset order.
C22_ChunksAreWindows ==
    /\ (op = "_chunk_document" /\ pc = "windows") => bi % Stride = 0
    /\ Chunked =>
           \E f \in [1..Len(out.value) -> WindowNumbers(documents[1].content)] :
               /\ \A k \in 1..Len(out.value) :
                      /\ out.value[k].text = WindowAt(documents[1].content, f[k])
                      /\ \/ NumWords(out.value[k].text) = DefaultChunkSize
                         \/ f[k] * Stride + NumWords(out.value[k].text)
                                = NumWords(documents[1].content)
               /\ \A k \in 1..(Len(out.value) - 1) : f[k] < f[k + 1]

\* C22's case: three chunks of words of several lengths, the last one shorter
\* than a full window.
C22_Witness ==
    /\ Chunked
    /\ Len(out.value) = 3
    /\ Len(documents[1].content.words) > 2
    /\ NumWords(out.value[3].text) < DefaultChunkSize

\* C23: every chunk has a text of at least 100 characters; exactly the
\* windows whose joined text is shorter are dropped; a body without words
\* gives an empty list; nothing is raised.
C23_NoShortChunk ==
    Chunked =>
        /\ ~out.raised
        /\ \A k \in 1..Len(out.value) :
               /\ NumWords(out.value[k].text) > 0
               /\ TextLen(out.value[k].text) >= MinChunkChars
        /\ Len(out.value) =
               Cardinality({j \in WindowNumbers(documents[1].content) :
                   TextLen(WindowAt(documents[1].content, j)) >= MinChunkChars})
        /\ NumWords(documents[1].content) = 0 => out.value = <<>>

\* C23's case: the document has words, under 100 characters in all, and no
\* chunk is returned.
C23_Witness ==
    /\ Chunked
    /\ NumWords(documents[1].content) > 0
    /\ out.value = <<>>

\* C24: the chunk_index values of the n chunks returned are 0, 1, ..., n-1 in
\* order, also when a window was dropped, and every total_chunks is n.
C24_IndexAndTotal ==
    Chunked =>
        \A k \in 1..Len(out.value) :
            /\ out.value[k].metadata.chunk_index = k - 1
            /\ out.value[k].metadata.total_chunks = Len(out.value)

\* C24's case: two chunks were returned and a window was dropped.
C24_Witness ==
    /\ Chunked
    /\ Len(out.value) = 2
    /\ Cardinality(WindowNumbers(documents[1].content)) = 3

\* --------------------------------------------------- claims on batching

\* the chunks from position bi + 1 on, batch_size of them at most
ChunksOfThisBatch ==
    SubSeq(processed_docs, bi + 1,
           IF bi + batch_size < Len(processed_docs) THEN bi + batch_size
           ELSE Len(processed_docs))

\* a step of the batch loop takes the chunks of this batch and stores nothing
\* else; what it stores under the k-th id of the batch is the k-th chunk's text
\* and metadata with the embedding of that text
BatchStepAligned ==
    (op = "add_documents" /\ pc = "batches" /\ op' = op /\ bi' # bi) =>
        /\ bi' = bi + batch_size
        /\ DOMAIN entries' \subseteq
               DOMAIN entries \cup {<<clock, k - 1>> : k \in 1..Len(ChunksOfThisBatch)}
        /\ \A k \in 1..Len(ChunksOfThisBatch) :
               (<<clock, k - 1>> \in DOMAIN entries' \ DOMAIN entries) =>
                   entries'[<<clock, k - 1>>] =
                       [text |-> ChunksOfThisBatch[k].text,
                        metadata |-> ChunksOfThisBatch[k].metadata,
                        embedding |-> Embed(ChunksOfThisBatch[k].text, modelDim)]

\* C25: add_documents goes through the list of chunks in consecutive batches
\* of at most batch_size, every chunk in exactly one batch, in order; within a
\* batch the k-th embedding is computed from the k-th text and stored with the
\* k-th text, metadata and id.
C25_BatchesPartitionAndAlign ==
    /\ []((op = "add_documents" /\ pc = "batches") =>
              (bi % batch_size = 0 /\ Len(ChunksOfThisBatch) <= batch_size))
    /\ []((Returned("add_documents") /\ ~out.raised) => bi >= Len(processed_docs))
    /\ [][BatchStepAligned]_vars

\* C25's case: four chunks in batches of two, the first batch stored and the
\* second one next.
C25_Witness ==
    /\ op = "add_documents" /\ pc = "batches"
    /\ batch_size = 2
    /\ bi = 2
    /\ Len(processed_docs) = 4
    /\ faults = {}
    /\ Count(entries) >= Count(entriesBefore) + 2

\* ------------------------------------------------ claims on the statistics

\* the sum of the counts of a distribution
RECURSIVE Total(_)
Total(dist) ==
    IF DOMAIN dist = {}
    THEN 0
    ELSE LET v == CHOOSE x \in DOMAIN dist : TRUE
         IN  dist[v] + Total([w \in DOMAIN dist \ {v} |-> dist[w]])

\* C26: get_collection_stats reports the entry count as total_chunks, and the
\* counts of 'sources' and those of 'content_types' each sum to total_chunks,
\* whatever the size of the collection.
C26_StatsAccountForAll ==
    (Returned("get_collection_stats") /\ faults = {}) =>
        /\ out.value.total_chunks = Count(entries)
        /\ Total(out.value.sources) = out.value.total_chunks
        /\ Total(out.value.content_types) = out.value.total_chunks

\* -------------------------------------------------- claims on /rag/rebuild

\* the handler of POST /rag/rebuild answers without having called the object
RebuildAnswersAtOnce ==
    /\ tpc["rebuild"] = "idle"
    /\ tpc'["rebuild"] = "idle"
    /\ resp' # resp
    /\ resp'.task = "rebuild"

\* the handler of POST /rag/rebuild goes from clear_collection to add_documents
RebuildStartsAdding == tpc["rebuild"] = "cleared" /\ tpc'["rebuild"] = "adding"

\* C27: /rag/rebuild with no crawled document leaves the collection untouched
\* and answers 404; with documents the collection is empty when the first
\* chunk is added, so that afterwards it holds only entries of this rebuild.
C27_RebuildAnswers ==
    [][ /\ RebuildAnswersAtOnce =>
            (entries' = entries /\ collExists' = collExists /\ resp'.status = 404)
        /\ RebuildStartsAdding => entries = NoEntries ]_vars

\* ----------------------------------------- claims on the crawl of health_api

\* the handler of POST /crawl/start runs
StartStep == started = NoAnswer /\ started' # NoAnswer

\* C28: at most one task of _run_crawling_process exists, and only while the
\* status is 'running'; POST /crawl/start during a run answers 400 and changes
\* neither crawl_status nor the tasks; otherwise it sets 'running', resets
\* articles_collected, sources_completed, end_time and error, and creates
\* exactly one task.
C28_OneCrawlAtATime ==
    /\ [](/\ Len(crawl_tasks) <= 1
          /\ (Len(crawl_tasks) = 1) = (crawl_status.status = "running"))
    /\ [][StartStep =>
            IF crawl_status.status = "running"
            THEN /\ started'.status = 400
                 /\ crawl_tasks' = crawl_tasks
                 /\ crawl_status' = crawl_status
            ELSE /\ started'.status = 200
                 /\ crawl_status'.status = "running"
                 /\ crawl_status'.articles_collected = 0
                 /\ crawl_status'.sources_completed = 0
                 /\ crawl_status'.end_time = None
                 /\ crawl_status'.error = None
                 /\ Len(crawl_tasks') = Len(crawl_tasks) + 1]_vars

\* a start request was rejected during the second run, which has got to its
\* third source
C28_Witness ==
    /\ started.status = 400
    /\ crawl_status.status = "running"
    /\ crawl_status.sources_completed = 2
    /\ crawl_status.start_time = Some(2)
    /\ Len(crawl_tasks) = 1

Running == crawl_status.status = "running"

\* C29: a crawl that is 'running' eventually is 'completed' or 'error' with
\* end_time set; during the run sources_completed and articles_collected never
\* decrease and articles_collected is 25 times sources_completed or 25 times
\* (sources_completed + 1); in 'completed' sources_completed is 8,
\* articles_collected is 200 and current_source is None.
C29_CrawlEnds ==
    /\ Running ~> (/\ crawl_status.status \in {"completed", "error"}
                   /\ crawl_status.end_time # None)
    /\ [][(Running /\ Running') =>
              /\ crawl_status'.sources_completed >= crawl_status.sources_completed
              /\ crawl_status'.articles_collected >= crawl_status.articles_collected]_vars
    /\ [](Running =>
              crawl_status.articles_collected \in
                  {25 * crawl_status.sources_completed,
                   25 * (crawl_status.sources_completed + 1)})
    /\ [](crawl_status.status = "completed" =>
              /\ crawl_status.sources_completed = 8
              /\ crawl_status.articles_collected = 200
              /\ crawl_status.current_source = None)

\* the second crawl has gone through its eight sources
C29_Witness ==
    /\ crawl_status.status = "completed"
    /\ crawl_status.start_time = Some(2)
    /\ crawl_status.end_time = Some(3)
    /\ crawl_status.articles_collected = 200
    /\ crawl_tasks = <<>>

\* --------------------------------------- claims on crawl_specific_sources

\* the names of a list that have a crawler, in their order
KnownOf(names) == SelectSeq(names, LAMBDA name : name \in Crawlers)

\* C30: once no call to crawl_specific_sources is running, crawler_priorities
\* is the tier map of the constructor again, also after overlapping calls, and
\* a call that has returned has crawled exactly the sources it was given.
C30_PrioritiesRestored ==
    /\ (\A c \in Calls : calls[c].pc # "crawling") => crawler_priorities = TierMap
    /\ \A c \in Calls :
           calls[c].pc = "returned" => calls[c].crawled = KnownOf(calls[c].source_names)


====
